---- MODULE Spec2Model ----
(***************************************************************************)
(* Model of the advisory rate-limit tracker (class RateLimiter) of the     *)
(* Gemini fine-tuning dataset creator, together with the process life      *)
(* cycle that constructs it and the JSON file it persists its state to.    *)
(*                                                                         *)
(* Time is the value of time.time() in whole seconds; the clock does not   *)
(* run backwards, and the time.time() calls of one _initialize_state read  *)
(* the same second.  The state file is modelled as the JSON document       *)
(* json.dump writes: a sequence of <<key, object>> members, an object      *)
(* being a sequence of <<field, number>> members.                          *)
(*                                                                         *)
(* Spec is the program on a file system that serves every open, read and   *)
(* write of the state file, and whose state file, when there is one, was   *)
(* written by save_state.  Processes start and exit any number of times.   *)
(* SpecFault adds a file system that fails: the state file can be damaged  *)
(* between two processes, and a save_state can fail.                       *)
(* SpecRace runs log_request statement by statement in two threads.        *)
(* SpecGui is the window: run_gemini, its worker thread, display_response. *)
(* SpecPdf is the save-path handshake of pdf_to_qa_dataset.py.             *)
(***************************************************************************)
EXTENDS Integers, Sequences, FiniteSets, TLC

(***************************************************************************)
(* Bounds of the exploration.                                              *)
(***************************************************************************)
MaxCalls == 3
MaxTicks == 2

\* log_request executions started by the concurrent callers of SpecRace.
MaxRaceCalls == 2

\* Clock advances between the statements of the concurrent callers.
MaxRaceTicks == 1

\* Validated run_gemini invocations in SpecGui.
MaxRuns == 2

\* PDF selections, each starting a generate_qa_dataset thread, in SpecPdf.
MaxPdfRuns == 2

(***************************************************************************)
(* Program constants.                                                      *)
(***************************************************************************)
MINUTE == 60
DAY == 86400

\* RateLimiter.MODELS, in dict (insertion) order.
ModelOrder ==
    << "gemini-1.5-flash", "gemini-1.5-flash-8b", "gemini-1.5-pro",
       "gemini-2.0-flash", "gemini-2.0-flash-thinking" >>

MODELS ==
    [ m \in { ModelOrder[i] : i \in 1..Len(ModelOrder) } |->
        CASE m = "gemini-1.5-flash"          -> [rpm |-> 15, daily |-> 1500]
          [] m = "gemini-1.5-flash-8b"       -> [rpm |-> 15, daily |-> 1500]
          [] m = "gemini-1.5-pro"            -> [rpm |-> 2,  daily |-> 50]
          [] m = "gemini-2.0-flash"          -> [rpm |-> 10, daily |-> 1500]
          [] m = "gemini-2.0-flash-thinking" -> [rpm |-> 10, daily |-> 1500] ]

\* The names the model selector of the GUI offers; three of them are not
\* keys of MODELS.
ComboItems ==
    { "gemini-exp-1206", "gemini-2.0-flash-exp-01-21",
      "gemini-2.0-flash-thinking-exp-01-21",
      "gemini-1.5-pro", "gemini-1.5-flash", "gemini-1.5-flash-8b" }

\* The resource names log_request is called with here: the selectable key
\* of MODELS with the smallest caps, one with large caps, and one name that
\* is selectable but is not a key of MODELS.
RequestNames == { "gemini-1.5-pro", "gemini-1.5-flash", "gemini-exp-1206" }

\* The amounts by which the clock advances between two operations.
Delays == { 30, 35, 86370 }

\* The field names of one model's window state, in dict order.
FieldOrder == << "minute_start", "day_start", "minute_requests", "daily_requests" >>

VARIABLES
    now,         \* time.time()
    pc,          \* "down": no process; "ready": the tracker is constructed;
                 \* "raising": an exception is leaving log_request
    state,       \* RateLimiter.state
    state_file,  \* rate_state.json: [exists, text, well_formed]
    last,        \* the last operation: [op, model, ret]
    before,      \* self.state when the tracker operation just made began
                 \* (in SpecRace: when the latest log_request began)
    status,      \* the mapping the get_limits call just made returned
    logged,      \* the logging records the log_request just made emitted
    hist,        \* per key of MODELS, the times of all its log_request calls
    exited,      \* the tracker of the previous process when it exited
    calls,       \* number of requests recorded in this exploration
    ticks,       \* number of clock advances so far
    born,        \* when _initialize_state made the state now kept; -1: never
    threads,     \* per concurrent caller of log_request: [pc, current_time, reg]
    race,        \* what the concurrent callers did so far: [started, completed,
                 \* overlapped, rolled, base]
    gui,         \* the window: [run_btn, save_btn, output, runs]
    workers,     \* the GeminiOneShotWorker threads started by this process:
                 \* [pc, model, emitted, handled] each
    posted,      \* finished signals queued for the GUI thread
    invocation,  \* the run_gemini invocation just made: [valid, model, events]
    pdf,         \* PDFQAApp: per selection, its generate_qa_dataset thread
    output_csv_path,  \* PDFQAApp.output_csv_path
    jsonl_file_path,  \* PDFQAApp.jsonl_file_path
    txt_file_path,    \* PDFQAApp.txt_file_path
    requested,   \* PDFQAApp: select_* signals queued for the GUI thread
    open         \* PDFQAApp: the save dialogs that are open, the latest first

\* The variables of the tracker and of its process.
trackerVars == << now, pc, state, state_file, last, before, status, logged,
                 hist, exited, calls, ticks, born >>

\* The variables of the other parts of the model.
\* The variables of the concurrent callers of SpecRace.
raceVars == << threads, race >>

\* The variables of the window and its worker threads.
guiVars == << gui, workers, posted, invocation >>

\* The variables of the PDF tool.
pdfVars == << pdf, output_csv_path, jsonl_file_path, txt_file_path,
             requested, open >>

otherVars == << raceVars, guiVars, pdfVars >>

vars == << trackerVars, otherVars >>

----------------------------------------------------------------------------
(***************************************************************************)
(* Pure parts of RateLimiter.                                              *)
(***************************************************************************)

\* RateLimiter._initialize_state at time t.
\* _initialize_state over the models the window offers for selection.
InitializeState_Offered(t) ==
    [ model \in ComboItems |->
        [ minute_start    |-> t,
          day_start       |-> t,
          minute_requests |-> 0,
          daily_requests  |-> 0 ] ]

\* _initialize_state with the windows started at the epoch.
InitializeState_Epoch(t) ==
    [ model \in DOMAIN MODELS |->
        [ minute_start    |-> 0,
          day_start       |-> 0,
          minute_requests |-> 0,
          daily_requests  |-> 0 ] ]

InitializeState(t) ==
    [ model \in DOMAIN MODELS |->
        [ minute_start    |-> t,
          day_start       |-> t,
          minute_requests |-> 0,
          daily_requests  |-> 0 ] ]

\* RollMinute with the boundary excluded.
RollMinute_Strict(ms, t) ==
    IF t - ms.minute_start > MINUTE
    THEN [ms EXCEPT !.minute_start = t, !.minute_requests = 0]
    ELSE ms

\* The first rollover step of log_request (lines 86-88) on one window state.
RollMinute(ms, t) ==
    IF t - ms.minute_start >= MINUTE
    THEN [ms EXCEPT !.minute_start = t, !.minute_requests = 0]
    ELSE ms

\* The second rollover step of log_request (lines 90-92).
RollDay(ms, t) ==
    IF t - ms.day_start >= DAY
    THEN [ms EXCEPT !.day_start = t, !.daily_requests = 0]
    ELSE ms

\* RolledOver with the day check made the alternative of the minute check
\* (elif), so that a call rolls over at most one window.
RolledOver_Elif(ms, t) ==
    IF t - ms.minute_start >= MINUTE THEN RollMinute(ms, t) ELSE RollDay(ms, t)

\* The window state of the model after both rollover steps.
RolledOver(ms, t) == RollDay(RollMinute(ms, t), t)

\* The condition of the advisory warning (lines 94-95), on the rolled state.
\* OverLimit that holds only once a cap is exceeded.
OverLimit_Exceeded(ms, limits) ==
    \/ ms.minute_requests > limits.rpm
    \/ ms.daily_requests > limits.daily

OverLimit(ms, limits) ==
    \/ ms.minute_requests >= limits.rpm
    \/ ms.daily_requests >= limits.daily

\* Increment with the second increment left out.
Increment_MinuteOnly(ms) ==
    [ms EXCEPT !.minute_requests = @ + 1]

\* The increments of log_request (lines 101-102).
Increment(ms) ==
    [ms EXCEPT !.minute_requests = @ + 1, !.daily_requests = @ + 1]

\* LogRequestState with a name that is not a key of MODELS counted against
\* the first model instead of being turned away.
LogRequestState_Fallback(st, model, t) ==
    LET key == IF model \in DOMAIN MODELS THEN model ELSE ModelOrder[1]
    IN  [st EXCEPT ![key] = Increment(RolledOver(st[key], t))]

\* self.state after log_request(model) at time t: untouched on the early
\* return for a name that is not a key of MODELS, else the model's window
\* state rolled over and incremented in place.
LogRequestState(st, model, t) ==
    IF model \notin DOMAIN MODELS
    THEN st
    ELSE [st EXCEPT ![model] = Increment(RolledOver(st[model], t))]

\* The logging records log_request(model) emits at time t for a key of
\* MODELS: the advisory warning with the pre-increment remaining values
\* when a cap is reached, then the informational record with the
\* post-increment remaining values.
KnownModelRecords(st, model, t) ==
    LET limits == MODELS[model]
        rolled == RolledOver(st[model], t)
        after  == Increment(rolled)
        warn   == << [level |-> "warning", model |-> model,
                      minute |-> limits.rpm - rolled.minute_requests,
                      daily  |-> limits.daily - rolled.daily_requests] >>
        info   == << [level |-> "info", model |-> model,
                      minute |-> limits.rpm - after.minute_requests,
                      daily  |-> limits.daily - after.daily_requests] >>
    IN  IF OverLimit(rolled, limits) THEN warn \o info ELSE info

\* The record logged for a name that is not a key of MODELS (line 79).
UnknownModelRecords(model) ==
    << [level |-> "error", model |-> model, minute |-> 0, daily |-> 0] >>

\* The logging records log_request(model) emits at time t.
LogRequestRecords(st, model, t) ==
    IF model \notin DOMAIN MODELS
    THEN UnknownModelRecords(model)
    ELSE KnownModelRecords(st, model, t)

\* ModelLimits with the minute boundary excluded, unlike log_request.
ModelLimits_Strict(ms, limits, t) ==
    [ remaining_minute |->
        IF t - ms.minute_start > MINUTE
        THEN limits.rpm
        ELSE limits.rpm - ms.minute_requests,
      remaining_daily |->
        IF t - ms.day_start >= DAY
        THEN limits.daily
        ELSE limits.daily - ms.daily_requests ]

\* ModelLimits with the remaining values clamped at 0.
ModelLimits_Clamped(ms, limits, t) ==
    LET Floor(n) == IF n < 0 THEN 0 ELSE n
    IN  [ remaining_minute |->
            IF t - ms.minute_start >= MINUTE
            THEN limits.rpm
            ELSE Floor(limits.rpm - ms.minute_requests),
          remaining_daily |->
            IF t - ms.day_start >= DAY
            THEN limits.daily
            ELSE Floor(limits.daily - ms.daily_requests) ]

\* One entry of the mapping get_limits returns (lines 115-127).
ModelLimits(ms, limits, t) ==
    [ remaining_minute |->
        IF t - ms.minute_start >= MINUTE
        THEN limits.rpm
        ELSE limits.rpm - ms.minute_requests,
      remaining_daily |->
        IF t - ms.day_start >= DAY
        THEN limits.daily
        ELSE limits.daily - ms.daily_requests ]

\* RateLimiter.get_limits at time t.
GetLimits(st, t) ==
    [ model \in DOMAIN st |-> ModelLimits(st[model], MODELS[model], t) ]

----------------------------------------------------------------------------
(***************************************************************************)
(* The JSON document of the state file.                                    *)
(***************************************************************************)

\* The keys of a dict in insertion order (the order of MODELS).
KeysInOrder(st) ==
    SelectSeq(ModelOrder, LAMBDA k : k \in DOMAIN st)

\* json.dump of one model's window state: its members in dict order.
JsonDumpObject(ms) ==
    [ j \in 1..Len(FieldOrder) |-> << FieldOrder[j], ms[FieldOrder[j]] >> ]

\* json.dump(self.state): one member per model, in dict order.
JsonDump(st) ==
    LET keys == KeysInOrder(st)
    IN  [ i \in 1..Len(keys) |-> << keys[i], JsonDumpObject(st[keys[i]]) >> ]

\* The value of the last member of the JSON object with the given name.
JsonMember(obj, name) ==
    LET idx == { i \in 1..Len(obj) : obj[i][1] = name }
    IN  obj[CHOOSE i \in idx : \A j \in idx : j <= i][2]

\* JsonLoadObject with the two window starts read from each other's member.
JsonLoadObject_Swapped(obj) ==
    LET From(f) == CASE f = "minute_start" -> "day_start"
                     [] f = "day_start"    -> "minute_start"
                     [] OTHER              -> f
    IN  [ f \in { obj[j][1] : j \in 1..Len(obj) } |-> JsonMember(obj, From(f)) ]

\* json.load of one JSON object holding numbers: a dict over its names.
JsonLoadObject(obj) ==
    [ f \in { obj[j][1] : j \in 1..Len(obj) } |-> JsonMember(obj, f) ]

\* json.load of the document: a dict of dicts.
JsonLoad(text) ==
    [ k \in { text[i][1] : i \in 1..Len(text) } |->
        JsonLoadObject(JsonMember(text, k)) ]

\* The file after save_state: opened for writing and filled by json.dump.
SavedFile(st) == [exists |-> TRUE, text |-> JsonDump(st), well_formed |-> TRUE]

\* No file.
MissingFile == [exists |-> FALSE, text |-> << >>, well_formed |-> FALSE]

\* A file whose content is not a JSON document, such as the empty file
\* open(..., 'w') leaves when nothing is written after it.
MalformedFile == [exists |-> TRUE, text |-> << >>, well_formed |-> FALSE]

\* What a save_state that fails leaves of the file: open(..., 'w') fails and
\* the file is as it was, or open has emptied the file and the write fails.
FailedSaves(file) == { file, MalformedFile }

----------------------------------------------------------------------------
(***************************************************************************)
(* Values of the bookkeeping variables.                                    *)
(***************************************************************************)
NoState == [ model \in {} |-> 0 ]

NoOp == [op |-> "none", model |-> "", ret |-> "none"]

NoExit == [known |-> FALSE, state |-> NoState, limits |-> NoState, at |-> 0]

Op(name, model, ret) == [op |-> name, model |-> model, ret |-> ret]

NoCalls == [ model \in DOMAIN MODELS |-> << >> ]

----------------------------------------------------------------------------
(***************************************************************************)
(* The state files earlier runs of the program can have left behind: the   *)
(* file of a run that started without a file at time 0 and recorded k      *)
(* requests for one model before the clock advanced.  hist holds those     *)
(* requests too.                                                           *)
(***************************************************************************)
PriorModels == { "gemini-1.5-pro" }

PriorRequestCounts == { 49 }

RECURSIVE Replay(_, _, _)
Replay(st, model, k) ==
    IF k = 0 THEN st ELSE Replay(LogRequestState(st, model, 0), model, k - 1)

\* The threads that call log_request of one tracker in SpecRace.
Threads == { 1, 2 }

\* The model they all ask for.
RaceModel == "gemini-1.5-pro"

\* A thread outside log_request.
IdleThread == [pc |-> "idle", current_time |-> 0, reg |-> 0]

\* The two counters of a model's window state.
Counters(ms) == [minute_requests |-> ms.minute_requests,
                 daily_requests  |-> ms.daily_requests]

NoRace == [started |-> 0, completed |-> 0, overlapped |-> FALSE,
           rolled |-> FALSE,
           base |-> [minute_requests |-> 0, daily_requests |-> 0]]

\* The window as GeminiTesterApp.__init__ leaves it: the run button
\* enabled, the save button disabled, no output.
InitGui == [run_btn |-> TRUE, save_btn |-> FALSE, output |-> "", runs |-> 0]

NoInvocation == [valid |-> FALSE, model |-> "", events |-> << >>]

\* The PDF selections made in the window of the PDF tool.
PdfRuns == 1..MaxPdfRuns

\* A selection not made yet: no thread, no dialog asked for or answered,
\* nothing written or read.
NewRun == [pc |-> "idle", asked |-> { }, answered |-> { }, own_csv |-> "None",
           wrote_csv |-> "None", read_csv |-> "None", wrote |-> { },
           early |-> FALSE]

Init ==
    /\ now = 0
    /\ pc = "down"
    /\ state = NoState
    /\ \/ /\ state_file = MissingFile
          /\ hist = NoCalls
          /\ born = -1
       \/ \E model \in PriorModels, k \in PriorRequestCounts :
            /\ state_file = SavedFile(Replay(InitializeState(0), model, k))
            /\ hist = [NoCalls EXCEPT ![model] = [ i \in 1..k |-> 0 ]]
            /\ born = 0
    /\ last = NoOp
    /\ before = NoState
    /\ status = NoState
    /\ logged = << >>
    /\ exited = NoExit
    /\ calls = 0
    /\ ticks = 0
    /\ threads = [ t \in Threads |-> IdleThread ]
    /\ race = NoRace
    /\ gui = InitGui
    /\ workers = << >>
    /\ posted = << >>
    /\ invocation = NoInvocation
    /\ pdf = [ r \in PdfRuns |-> NewRun ]
    /\ output_csv_path = "None"
    /\ jsonl_file_path = "None"
    /\ txt_file_path = "None"
    /\ requested = << >>
    /\ open = << >>

----------------------------------------------------------------------------
(***************************************************************************)
(* Operations.                                                             *)
(***************************************************************************)

\* self.state after load_state: the content of the file when there is one,
\* a fresh state otherwise.
LoadState(file, t) ==
    IF file.exists THEN JsonLoad(file.text) ELSE InitializeState(t)

\* The file after load_state: a fresh state is saved at once.
LoadStateFile(file, t) ==
    IF file.exists THEN file ELSE SavedFile(InitializeState(t))

\* RateLimiter.__init__ in a new process.
Construct ==
    /\ pc = "down"
    /\ state_file.exists => state_file.well_formed
    /\ state' = LoadState(state_file, now)
    /\ state_file' = LoadStateFile(state_file, now)
    /\ pc' = "ready"
    /\ last' = Op("construct", "", "none")
    /\ before' = NoState
    /\ status' = NoState
    /\ logged' = << >>
    /\ born' = IF state_file.exists THEN born ELSE now
    /\ UNCHANGED << now, hist, exited, calls, ticks >>
    /\ UNCHANGED otherVars

\* LogRequestReturn of a limiter that enforces: the request is refused
\* once a cap is reached.
LogRequestReturn_Enforcing(st, model, t) ==
    IF /\ model \in DOMAIN MODELS
       /\ OverLimit(RolledOver(st[model], t), MODELS[model])
    THEN "False"
    ELSE "True"

\* What log_request returns (lines 80 and 109).
LogRequestReturn(st, model, t) == "True"

\* LogRequestFile with save_state called before the increments.
LogRequestFile_Early(file, st, model, t) ==
    IF model \in DOMAIN MODELS
    THEN SavedFile([st EXCEPT ![model] = RolledOver(st[model], t)])
    ELSE file

\* The file after log_request(model): written by save_state on the path of
\* a key of MODELS, untouched on the early return.
LogRequestFile(file, st, model, t) ==
    IF model \in DOMAIN MODELS
    THEN SavedFile(LogRequestState(st, model, t))
    ELSE file

\* RateLimiter.log_request(model).
LogRequest(model) ==
    /\ pc = "ready"
    /\ model \in DOMAIN MODELS => calls < MaxCalls
    /\ state' = LogRequestState(state, model, now)
    /\ logged' = LogRequestRecords(state, model, now)
    /\ hist' = IF model \in DOMAIN MODELS
               THEN [hist EXCEPT ![model] = Append(@, now)]
               ELSE hist
    /\ state_file' = LogRequestFile(state_file, state, model, now)
    /\ last' = Op("log_request", model, LogRequestReturn(state, model, now))
    /\ before' = state
    /\ status' = NoState
    /\ exited' = NoExit
    /\ calls' = IF model \in DOMAIN MODELS THEN calls + 1 ELSE calls
    /\ UNCHANGED << now, pc, ticks >>
    /\ UNCHANGED born
    /\ UNCHANGED otherVars

\* GetLimitsCall that commits the rollover it computes to self.state.
GetLimitsCall_Committing ==
    /\ pc = "ready"
    /\ status' = GetLimits(state, now)
    /\ state' = [ model \in DOMAIN state |-> RolledOver(state[model], now) ]
    /\ last' = Op("get_limits", "", "none")
    /\ before' = state
    /\ logged' = << >>
    /\ exited' = NoExit
    /\ UNCHANGED << now, pc, state_file, hist, calls, ticks >>
    /\ UNCHANGED born
    /\ UNCHANGED otherVars

\* RateLimiter.get_limits().
GetLimitsCall ==
    /\ pc = "ready"
    /\ status' = GetLimits(state, now)
    /\ last' = Op("get_limits", "", "none")
    /\ before' = state
    /\ logged' = << >>
    /\ exited' = NoExit
    /\ UNCHANGED << now, pc, state, state_file, hist, calls, ticks >>
    /\ UNCHANGED born
    /\ UNCHANGED otherVars

\* The clock advances.
Tick(d) ==
    /\ ticks < MaxTicks
    /\ now' = now + d
    /\ ticks' = ticks + 1
    /\ last' = Op("tick", "", "none")
    /\ before' = NoState
    /\ status' = NoState
    /\ logged' = << >>
    /\ exited' = IF pc = "down" THEN exited ELSE NoExit
    /\ UNCHANGED << pc, state, state_file, hist, calls >>
    /\ UNCHANGED born
    /\ UNCHANGED otherVars

\* The process ends; the state file stays.
Exit ==
    /\ pc = "ready"
    /\ pc' = "down"
    /\ exited' = [known |-> TRUE, state |-> state,
                  limits |-> GetLimits(state, now), at |-> now]
    /\ state' = NoState
    /\ status' = NoState
    /\ logged' = << >>
    /\ last' = Op("exit", "", "none")
    /\ before' = NoState
    /\ UNCHANGED << now, state_file, hist, calls, ticks >>
    /\ UNCHANGED born
    /\ UNCHANGED otherVars

Next ==
    \/ Construct
    \/ \E model \in RequestNames : LogRequest(model)
    \/ GetLimitsCall
    \/ \E d \in Delays : Tick(d)
    \/ Exit

Spec == Init /\ [][Next]_vars

----------------------------------------------------------------------------
(***************************************************************************)
(* log_request called by several threads on one tracker, with no lock:     *)
(* one step per statement, and the load and the store of each += apart.    *)
(* The statements that only read to log (lines 94 to 100, 103 to 107) are  *)
(* not steps.  All callers ask for RaceModel.                              *)
(***************************************************************************)

\* The variables a statement of log_request never changes.
raceFrame == << now, pc, last, status, logged, hist, exited, calls,
               ticks, born, guiVars, pdfVars >>

\* The thread is at the given statement of log_request.
At(t, where) == pc = "ready" /\ threads[t].pc = where

Goto(t, where) == threads' = [threads EXCEPT ![t].pc = where]

\* model_state[field] = value.
Assign(field, value) ==
    state' = [state EXCEPT ![RaceModel] = [@ EXCEPT ![field] = value]]

\* Incremented with the addition left out.
Incremented_Kept(value) == value

\* The value a += 1 stores for the value it loaded.
Incremented(value) == value + 1

\* Lines 77 to 83: the name is a key of MODELS; current_time = time.time();
\* model_state = self.state[model].
RaceBegin(t) ==
    /\ At(t, "idle")
    /\ race.started < MaxRaceCalls
    /\ threads' = [threads EXCEPT
                      ![t] = [pc |-> "86", current_time |-> now, reg |-> 0]]
    /\ race' = [race EXCEPT
                  !.started = @ + 1,
                  !.overlapped = @ \/ \E u \in Threads : threads[u].pc # "idle",
                  !.base = IF race.started = 0 THEN Counters(state[RaceModel])
                                               ELSE @]
    /\ before' = state
    /\ UNCHANGED << state, state_file, raceFrame >>

\* Line 86: if current_time - model_state['minute_start'] >= 60.
RaceMinuteCheck(t) ==
    /\ At(t, "86")
    /\ IF threads[t].current_time - state[RaceModel].minute_start >= MINUTE
       THEN /\ Goto(t, "87")
            /\ race' = [race EXCEPT !.rolled = TRUE]
       ELSE /\ Goto(t, "90")
            /\ UNCHANGED race
    /\ UNCHANGED << state, state_file, before, raceFrame >>

\* Line 87: model_state['minute_start'] = current_time.
RaceMinuteStart(t) ==
    /\ At(t, "87")
    /\ Assign("minute_start", threads[t].current_time)
    /\ Goto(t, "88")
    /\ UNCHANGED << race, state_file, before, raceFrame >>

\* Line 88: model_state['minute_requests'] = 0.
RaceMinuteZero(t) ==
    /\ At(t, "88")
    /\ Assign("minute_requests", 0)
    /\ Goto(t, "90")
    /\ UNCHANGED << race, state_file, before, raceFrame >>

\* Line 90: if current_time - model_state['day_start'] >= 86400.
RaceDayCheck(t) ==
    /\ At(t, "90")
    /\ IF threads[t].current_time - state[RaceModel].day_start >= DAY
       THEN /\ Goto(t, "91")
            /\ race' = [race EXCEPT !.rolled = TRUE]
       ELSE /\ Goto(t, "101")
            /\ UNCHANGED race
    /\ UNCHANGED << state, state_file, before, raceFrame >>

\* Line 91: model_state['day_start'] = current_time.
RaceDayStart(t) ==
    /\ At(t, "91")
    /\ Assign("day_start", threads[t].current_time)
    /\ Goto(t, "92")
    /\ UNCHANGED << race, state_file, before, raceFrame >>

\* Line 92: model_state['daily_requests'] = 0.
RaceDayZero(t) ==
    /\ At(t, "92")
    /\ Assign("daily_requests", 0)
    /\ Goto(t, "101")
    /\ UNCHANGED << race, state_file, before, raceFrame >>

\* Line 101, model_state['minute_requests'] += 1: the load.
RaceLoadMinute(t) ==
    /\ At(t, "101")
    /\ threads' = [threads EXCEPT
                      ![t].reg = state[RaceModel].minute_requests,
                      ![t].pc = "101s"]
    /\ UNCHANGED << race, state, state_file, before, raceFrame >>

\* Line 101: the store.
RaceStoreMinute(t) ==
    /\ At(t, "101s")
    /\ Assign("minute_requests", Incremented(threads[t].reg))
    /\ Goto(t, "102")
    /\ UNCHANGED << race, state_file, before, raceFrame >>

\* Line 102, model_state['daily_requests'] += 1: the load.
RaceLoadDaily(t) ==
    /\ At(t, "102")
    /\ threads' = [threads EXCEPT
                      ![t].reg = state[RaceModel].daily_requests,
                      ![t].pc = "102s"]
    /\ UNCHANGED << race, state, state_file, before, raceFrame >>

\* Line 102: the store.
RaceStoreDaily(t) ==
    /\ At(t, "102s")
    /\ Assign("daily_requests", Incremented(threads[t].reg))
    /\ Goto(t, "108")
    /\ UNCHANGED << race, state_file, before, raceFrame >>

\* Lines 108 and 109: self.save_state(); return True.
RaceSave(t) ==
    /\ At(t, "108")
    /\ state_file' = SavedFile(state)
    /\ threads' = [threads EXCEPT ![t] = IdleThread]
    /\ race' = [race EXCEPT !.completed = @ + 1]
    /\ UNCHANGED << state, before, raceFrame >>

\* A minute and a day: what the clock advances by between two statements.
RaceDelays == { MINUTE, DAY }

\* The clock advances between two statements.
RaceTick(d) ==
    /\ pc = "ready"
    /\ ticks < MaxRaceTicks
    /\ now' = now + d
    /\ ticks' = ticks + 1
    /\ UNCHANGED << pc, state, state_file, last, before, status, logged,
                    hist, exited, calls, born, threads, race, guiVars,
                    pdfVars >>

NextRace ==
    \/ Construct
    \/ \E d \in RaceDelays : RaceTick(d)
    \/ \E t \in Threads : RaceBegin(t)
    \/ \E t \in Threads : RaceMinuteCheck(t)
    \/ \E t \in Threads : RaceMinuteStart(t)
    \/ \E t \in Threads : RaceMinuteZero(t)
    \/ \E t \in Threads : RaceDayCheck(t)
    \/ \E t \in Threads : RaceDayStart(t)
    \/ \E t \in Threads : RaceDayZero(t)
    \/ \E t \in Threads : RaceLoadMinute(t)
    \/ \E t \in Threads : RaceStoreMinute(t)
    \/ \E t \in Threads : RaceLoadDaily(t)
    \/ \E t \in Threads : RaceStoreDaily(t)
    \/ \E t \in Threads : RaceSave(t)

SpecRace == Init /\ [][NextRace]_vars

----------------------------------------------------------------------------
(***************************************************************************)
(* The window: run_gemini, the worker thread it starts, and the slot       *)
(* display_response that the worker's finished signal is connected to.     *)
(* The clock stands still here.  The state file may fail to be written.    *)
(***************************************************************************)

\* What the machine name field and the manual text field may hold.
Machines == { "", " ", "CNC Lathe" }
Manuals == { "", " ", "Main Spindle, part number 1234567" }

\* str.strip() on these texts.
Strip(text) == IF text = " " THEN "" ELSE text

\* The two checks of run_gemini (lines 372 and 377) both pass.
Validated(machine, text) == Strip(machine) # "" /\ Strip(text) # ""

\* A worker as run_gemini starts it.
NewWorker(model) ==
    [pc |-> "running", model |-> model, emitted |-> 0, handled |-> FALSE]

\* What run_gemini does, in order, when log_request returns.
RunGeminiEvents(model, machine, text) ==
    IF Validated(machine, text)
    THEN << [op |-> "log_request", model |-> model],
            [op |-> "start", model |-> model] >>
    ELSE << >>

\* The tracker part of a run_gemini whose log_request returns.
RunGeminiTracker(model) ==
    /\ state' = LogRequestState(state, model, now)
    /\ logged' = LogRequestRecords(state, model, now)
    /\ hist' = IF model \in DOMAIN MODELS
               THEN [hist EXCEPT ![model] = Append(@, now)]
               ELSE hist
    /\ state_file' = LogRequestFile(state_file, state, model, now)
    /\ before' = state
    /\ calls' = IF model \in DOMAIN MODELS THEN calls + 1 ELSE calls

\* The buttons as run_gemini leaves them with the worker started.
ButtonsDuringRun == [run_btn |-> FALSE, save_btn |-> FALSE]

\* GeminiTesterApp.run_gemini, the slot of run_btn.clicked, with the model
\* selected in the combo box and the texts of the two fields.
RunGemini(model, machine, text) ==
    /\ pc = "ready"
    /\ gui.run_btn
    /\ Validated(machine, text) => gui.runs < MaxRuns
    /\ IF Validated(machine, text)
       THEN /\ RunGeminiTracker(model)
            /\ gui' = [run_btn  |-> ButtonsDuringRun.run_btn,
                       save_btn |-> ButtonsDuringRun.save_btn,
                       output   |-> "",
                       runs     |-> gui.runs + 1]
            /\ workers' = Append(workers, NewWorker(model))
       ELSE UNCHANGED << state, logged, hist, state_file, before, calls,
                         gui, workers >>
    /\ invocation' = [valid |-> Validated(machine, text), model |-> model,
                      events |-> RunGeminiEvents(model, machine, text)]
    /\ last' = Op("run_gemini", model, "none")
    /\ status' = NoState
    /\ exited' = NoExit
    /\ UNCHANGED << now, pc, ticks, born, posted, raceVars, pdfVars >>

\* What becomes of the process when the exception of a failed save_state
\* leaves the slot: ended (PyQt5 from 5.5 on), or still running.
SlotOutcomes == { "down", "ready" }

\* run_gemini with texts that pass the checks and a save_state that fails:
\* log_request has counted the request when OSError leaves it at line 108,
\* and lines 385 to 409 do not run.
RunGeminiSaveFails(model, machine, text) ==
    /\ pc = "ready"
    /\ gui.run_btn
    /\ Validated(machine, text)
    /\ model \in DOMAIN MODELS
    /\ gui.runs < MaxRuns
    /\ \E outcome \in SlotOutcomes :
          /\ pc' = outcome
          /\ state' = IF outcome = "down"
                      THEN NoState
                      ELSE LogRequestState(state, model, now)
          /\ gui' = IF outcome = "down"
                    THEN [InitGui EXCEPT !.runs = gui.runs + 1]
                    ELSE [gui EXCEPT !.runs = @ + 1]
          /\ workers' = IF outcome = "down" THEN << >> ELSE workers
    /\ logged' = LogRequestRecords(state, model, now)
    /\ hist' = [hist EXCEPT ![model] = Append(@, now)]
    /\ state_file' \in FailedSaves(state_file)
    /\ before' = state
    /\ calls' = calls + 1
    /\ invocation' = [valid |-> TRUE, model |-> model,
                      events |-> << [op |-> "log_request", model |-> model] >>]
    /\ last' = Op("run_gemini", model, "raised")
    /\ status' = NoState
    /\ exited' = NoExit
    /\ UNCHANGED << now, ticks, born, posted, raceVars, pdfVars >>

\* The finished signals run() emits when nothing raises (line 162).
SucceededSignals == << "output" >>

\* The except branch without its emit.
RaisedSignals_Silent == << >>

\* The finished signals run() emits from the except branch (line 166).
RaisedSignals == << "Error: ..." >>

\* GeminiOneShotWorker.run() of the i-th worker comes to its end having
\* emitted the given finished signals, which are queued for the GUI thread.
WorkerEnds(i, signals) ==
    /\ pc = "ready"
    /\ i \in DOMAIN workers
    /\ workers[i].pc = "running"
    /\ workers' = [workers EXCEPT ![i].pc = "returned",
                                  ![i].emitted = @ + Len(signals)]
    /\ posted' = posted \o [ k \in 1..Len(signals) |->
                               [worker |-> i, text |-> signals[k]] ]
    /\ UNCHANGED << trackerVars, raceVars, pdfVars, gui, invocation >>

\* run() with the model answering.
WorkerSucceeds(i) == WorkerEnds(i, SucceededSignals)

\* run() with an exception raised inside the try.
WorkerRaises(i) == WorkerEnds(i, RaisedSignals)

\* GeminiTesterApp.display_response, the slot of the worker's finished.
DisplayResponse ==
    /\ pc = "ready"
    /\ posted # << >>
    /\ gui' = [gui EXCEPT !.output = Head(posted).text,
                          !.run_btn = TRUE,
                          !.save_btn = TRUE]
    /\ workers' = [workers EXCEPT ![Head(posted).worker].handled = TRUE]
    /\ posted' = Tail(posted)
    /\ UNCHANGED << trackerVars, raceVars, pdfVars, invocation >>

\* The window is closed and the process ends, whatever the worker does.
GuiExit ==
    /\ pc = "ready"
    /\ pc' = "down"
    /\ state' = NoState
    /\ status' = NoState
    /\ logged' = << >>
    /\ before' = NoState
    /\ last' = Op("exit", "", "none")
    /\ gui' = [InitGui EXCEPT !.runs = gui.runs]
    /\ workers' = << >>
    /\ posted' = << >>
    /\ UNCHANGED << now, state_file, hist, exited, calls, ticks, born,
                    raceVars, pdfVars, invocation >>

NextGui ==
    \/ Construct
    \/ \E model \in RequestNames, machine \in Machines, text \in Manuals :
          RunGemini(model, machine, text)
    \/ \E model \in RequestNames, machine \in Machines, text \in Manuals :
          RunGeminiSaveFails(model, machine, text)
    \/ \E i \in 1..MaxRuns : WorkerSucceeds(i)
    \/ \E i \in 1..MaxRuns : WorkerRaises(i)
    \/ DisplayResponse
    \/ GuiExit

\* The worker thread is scheduled and the call it makes to the service
\* returns or raises; the event loop delivers a queued signal.
GuiFairness ==
    /\ WF_vars(\E i \in 1..MaxRuns : WorkerSucceeds(i) \/ WorkerRaises(i))
    /\ WF_vars(DisplayResponse)

SpecGui == Init /\ [][NextGui]_vars /\ GuiFairness

----------------------------------------------------------------------------
(***************************************************************************)
(* The PDF tool (pdf_to_qa_dataset.py).  select_pdf starts one thread per  *)
(* selection and never disables its button; each thread asks the GUI       *)
(* thread for its three save paths through the three fields of the window, *)
(* which all threads share.  One step per statement that reads or writes a *)
(* shared field; "None" is Python's None and "" the path of a cancelled    *)
(* dialog.                                                                 *)
(***************************************************************************)

\* What QFileDialog.getSaveFileName returns: '' when cancelled.
DialogPaths(kind) ==
    CASE kind = "csv"   -> { "", "a.csv", "b.csv" }
      [] kind = "jsonl" -> { "", "a.jsonl" }
      [] kind = "txt"   -> { "", "a.txt" }

\* The truth value of a path in an if: None and '' are false.
Truthy(path) == path \notin { "None", "" }

\* The variables of the tracker's program, which this tool does not have.
pdfFrame == << trackerVars, raceVars, guiVars >>

PdfAt(r, where) == pdf[r].pc = where

PdfGoto(r, where) == pdf' = [pdf EXCEPT ![r].pc = where]

\* The run's busy wait ends: the field is not None.  The run notes whether
\* the dialog it asked for itself has returned by then.
PdfWaitEnds(r, kind, where) ==
    pdf' = [pdf EXCEPT ![r].pc = where,
                       ![r].early = @ \/ kind \notin pdf[r].answered]

\* self.signals.select_*.emit(): queued for the GUI thread.
PdfEmit(r, kind, where) ==
    /\ requested' = Append(requested, [run |-> r, kind |-> kind])
    /\ pdf' = [pdf EXCEPT ![r].pc = where, ![r].asked = @ \cup { kind }]

\* select_pdf (lines 60 to 67) with a file chosen: a thread is started,
\* whatever the earlier threads are doing.  No save dialog is open, as
\* those are modal.
PdfSelect(r) ==
    /\ PdfAt(r, "idle")
    /\ \A q \in PdfRuns : q < r => ~PdfAt(q, "idle")
    /\ open = << >>
    /\ PdfGoto(r, "71")
    /\ UNCHANGED << output_csv_path, jsonl_file_path, txt_file_path,
                    requested, open, pdfFrame >>

\* Lines 71 to 141: the model is loaded and the pairs are generated.
PdfProcess(r) ==
    /\ PdfAt(r, "71")
    /\ PdfGoto(r, "143")
    /\ UNCHANGED << output_csv_path, jsonl_file_path, txt_file_path,
                    requested, open, pdfFrame >>

\* Lines 98 to 103: the model cannot be loaded, the thread returns.
PdfLoadFails(r) ==
    /\ PdfAt(r, "71")
    /\ PdfGoto(r, "done")
    /\ UNCHANGED << output_csv_path, jsonl_file_path, txt_file_path,
                    requested, open, pdfFrame >>

\* Line 143: self.output_csv_path = None.
PdfResetCsv(r) ==
    /\ PdfAt(r, "143")
    /\ output_csv_path' = "None"
    /\ PdfGoto(r, "144")
    /\ UNCHANGED << jsonl_file_path, txt_file_path, requested, open,
                    pdfFrame >>

\* Line 144: self.signals.select_csv.emit().
PdfEmitCsv(r) ==
    /\ PdfAt(r, "144")
    /\ PdfEmit(r, "csv", "147")
    /\ UNCHANGED << output_csv_path, jsonl_file_path, txt_file_path, open,
                    pdfFrame >>

\* Lines 147 and 148: while self.output_csv_path is None: pass.
PdfWaitCsv(r) ==
    /\ PdfAt(r, "147")
    /\ output_csv_path # "None"
    /\ PdfWaitEnds(r, "csv", "150")
    /\ UNCHANGED << output_csv_path, jsonl_file_path, txt_file_path,
                    requested, open, pdfFrame >>

\* Line 150: if self.output_csv_path; else lines 188 to 191.
PdfCheckCsv(r) ==
    /\ PdfAt(r, "150")
    /\ PdfGoto(r, IF Truthy(output_csv_path) THEN "151" ELSE "done")
    /\ UNCHANGED << output_csv_path, jsonl_file_path, txt_file_path,
                    requested, open, pdfFrame >>

\* Line 151: qa_dataset.to_csv(self.output_csv_path).  Without a path the
\* call raises and the thread ends.
PdfWriteCsv(r) ==
    /\ PdfAt(r, "151")
    /\ pdf' = [pdf EXCEPT
                 ![r].pc = IF Truthy(output_csv_path) THEN "155" ELSE "raised",
                 ![r].wrote_csv = IF Truthy(output_csv_path)
                                  THEN output_csv_path ELSE @,
                 ![r].wrote = IF Truthy(output_csv_path)
                              THEN @ \cup { "csv" } ELSE @]
    /\ UNCHANGED << output_csv_path, jsonl_file_path, txt_file_path,
                    requested, open, pdfFrame >>

\* Line 155: self.jsonl_file_path = None.
PdfResetJsonl(r) ==
    /\ PdfAt(r, "155")
    /\ jsonl_file_path' = "None"
    /\ PdfGoto(r, "156")
    /\ UNCHANGED << output_csv_path, txt_file_path, requested, open,
                    pdfFrame >>

\* Line 156: self.signals.select_jsonl.emit().
PdfEmitJsonl(r) ==
    /\ PdfAt(r, "156")
    /\ PdfEmit(r, "jsonl", "159")
    /\ UNCHANGED << output_csv_path, jsonl_file_path, txt_file_path, open,
                    pdfFrame >>

\* Lines 159 and 160: while self.jsonl_file_path is None: pass.
PdfWaitJsonl(r) ==
    /\ PdfAt(r, "159")
    /\ jsonl_file_path # "None"
    /\ PdfWaitEnds(r, "jsonl", "162")
    /\ UNCHANGED << output_csv_path, jsonl_file_path, txt_file_path,
                    requested, open, pdfFrame >>

\* Line 162: df = pd.read_csv(self.output_csv_path).  Without a path the
\* call raises and the thread ends.
PdfReadCsv(r) ==
    /\ PdfAt(r, "162")
    /\ pdf' = [pdf EXCEPT
                 ![r].pc = IF Truthy(output_csv_path) THEN "163" ELSE "raised",
                 ![r].read_csv = IF Truthy(output_csv_path)
                                 THEN output_csv_path ELSE @]
    /\ UNCHANGED << output_csv_path, jsonl_file_path, txt_file_path,
                    requested, open, pdfFrame >>

\* Lines 163 and 164: if self.jsonl_file_path: df.to_json(...).
PdfWriteJsonl(r) ==
    /\ PdfAt(r, "163")
    /\ pdf' = [pdf EXCEPT
                 ![r].pc = "168",
                 ![r].wrote = IF Truthy(jsonl_file_path)
                              THEN @ \cup { "jsonl" } ELSE @]
    /\ UNCHANGED << output_csv_path, jsonl_file_path, txt_file_path,
                    requested, open, pdfFrame >>

\* Line 168: self.txt_file_path = None.
PdfResetTxt(r) ==
    /\ PdfAt(r, "168")
    /\ txt_file_path' = "None"
    /\ PdfGoto(r, "169")
    /\ UNCHANGED << output_csv_path, jsonl_file_path, requested, open,
                    pdfFrame >>

\* Line 169: self.signals.select_txt.emit().
PdfEmitTxt(r) ==
    /\ PdfAt(r, "169")
    /\ PdfEmit(r, "txt", "172")
    /\ UNCHANGED << output_csv_path, jsonl_file_path, txt_file_path, open,
                    pdfFrame >>

\* Lines 172 and 173: while self.txt_file_path is None: pass.
PdfWaitTxt(r) ==
    /\ PdfAt(r, "172")
    /\ txt_file_path # "None"
    /\ PdfWaitEnds(r, "txt", "175")
    /\ UNCHANGED << output_csv_path, jsonl_file_path, txt_file_path,
                    requested, open, pdfFrame >>

\* Lines 175 to 191: if self.txt_file_path: the text file is written; the
\* thread returns.
PdfWriteTxt(r) ==
    /\ PdfAt(r, "175")
    /\ pdf' = [pdf EXCEPT
                 ![r].pc = "done",
                 ![r].wrote = IF Truthy(txt_file_path)
                              THEN @ \cup { "txt" } ELSE @]
    /\ UNCHANGED << output_csv_path, jsonl_file_path, txt_file_path,
                    requested, open, pdfFrame >>

\* The GUI thread takes the next queued select_* signal and runs its slot
\* (get_csv_save_path, get_jsonl_save_path, get_txt_save_path) up to the
\* modal dialog, whose event loop takes further signals.
PdfDialogOpens ==
    /\ requested # << >>
    /\ open' = << Head(requested) >> \o open
    /\ requested' = Tail(requested)
    /\ UNCHANGED << pdf, output_csv_path, jsonl_file_path, txt_file_path,
                    pdfFrame >>

\* The dialog opened last returns the given path and its slot assigns the
\* path to the field of its kind (lines 197, 203, 209).
PdfDialogReturns(path) ==
    /\ open # << >>
    /\ path \in DialogPaths(Head(open).kind)
    /\ output_csv_path' =
          IF Head(open).kind = "csv" THEN path ELSE output_csv_path
    /\ jsonl_file_path' =
          IF Head(open).kind = "jsonl" THEN path ELSE jsonl_file_path
    /\ txt_file_path' =
          IF Head(open).kind = "txt" THEN path ELSE txt_file_path
    /\ pdf' = [pdf EXCEPT
                 ![Head(open).run].answered = @ \cup { Head(open).kind },
                 ![Head(open).run].own_csv =
                     IF Head(open).kind = "csv" THEN path ELSE @]
    /\ open' = Tail(open)
    /\ UNCHANGED << requested, pdfFrame >>

NextPdf ==
    \/ \E r \in PdfRuns : PdfSelect(r)
    \/ \E r \in PdfRuns : PdfProcess(r)
    \/ \E r \in PdfRuns : PdfLoadFails(r)
    \/ \E r \in PdfRuns : PdfResetCsv(r)
    \/ \E r \in PdfRuns : PdfEmitCsv(r)
    \/ \E r \in PdfRuns : PdfWaitCsv(r)
    \/ \E r \in PdfRuns : PdfCheckCsv(r)
    \/ \E r \in PdfRuns : PdfWriteCsv(r)
    \/ \E r \in PdfRuns : PdfResetJsonl(r)
    \/ \E r \in PdfRuns : PdfEmitJsonl(r)
    \/ \E r \in PdfRuns : PdfWaitJsonl(r)
    \/ \E r \in PdfRuns : PdfReadCsv(r)
    \/ \E r \in PdfRuns : PdfWriteJsonl(r)
    \/ \E r \in PdfRuns : PdfResetTxt(r)
    \/ \E r \in PdfRuns : PdfEmitTxt(r)
    \/ \E r \in PdfRuns : PdfWaitTxt(r)
    \/ \E r \in PdfRuns : PdfWriteTxt(r)
    \/ PdfDialogOpens
    \/ \E path \in { "", "a.csv", "b.csv", "a.jsonl", "a.txt" } :
          PdfDialogReturns(path)

SpecPdf == Init /\ [][NextPdf]_vars

----------------------------------------------------------------------------
(***************************************************************************)
(* The failing file system.                                                *)
(***************************************************************************)

\* The state file is damaged while no process runs: a write that did not
\* complete, an edit.
StoreDamaged ==
    /\ pc = "down"
    /\ state_file.exists
    /\ state_file.well_formed
    /\ state_file' = MalformedFile
    /\ last' = Op("damage", "", "none")
    /\ UNCHANGED << now, pc, state, before, status, logged, hist, exited,
                    calls, ticks >>
    /\ UNCHANGED born
    /\ UNCHANGED otherVars

\* RateLimiter.__init__ with a state file that is not a JSON document:
\* json.load raises JSONDecodeError, nothing catches it on the way out of
\* load_state, __init__, init_rate_limiter and main, and the process ends.
ConstructRaises ==
    /\ pc = "down"
    /\ state_file.exists
    /\ ~state_file.well_formed
    /\ last' = Op("construct", "", "raised")
    /\ UNCHANGED << now, pc, state, state_file, before, status, logged, hist,
                    exited, calls, ticks >>
    /\ UNCHANGED born
    /\ UNCHANGED otherVars

\* RateLimiter.log_request(model) for a key of MODELS whose save_state
\* fails: the counters are incremented and the records logged (lines 82 to
\* 107), then open or json.dump raises OSError (line 108), which log_request
\* does not catch: it returns nothing, the exception is on its way up.
LogRequestSaveFails(model) ==
    /\ pc = "ready"
    /\ model \in DOMAIN MODELS
    /\ calls < MaxCalls
    /\ state' = LogRequestState(state, model, now)
    /\ logged' = LogRequestRecords(state, model, now)
    /\ hist' = [hist EXCEPT ![model] = Append(@, now)]
    /\ state_file' \in FailedSaves(state_file)
    /\ last' = Op("log_request", model, "raised")
    /\ pc' = "raising"
    /\ before' = state
    /\ status' = NoState
    /\ exited' = NoExit
    /\ calls' = calls + 1
    /\ UNCHANGED << now, ticks >>
    /\ UNCHANGED born
    /\ UNCHANGED otherVars

\* The exception leaves run_gemini, the slot of run_btn.clicked, which has
\* no try around log_request (line 383).  PyQt5 from 5.5 on ends the
\* process on an exception that leaves a slot when no sys.excepthook is
\* installed, and this program installs none.
SlotAborts ==
    /\ pc = "raising"
    /\ pc' = "down"
    /\ state' = NoState
    /\ UNCHANGED << now, state_file, last, before, status, logged, hist,
                    exited, calls, ticks >>
    /\ UNCHANGED born
    /\ UNCHANGED otherVars

\* The same under a PyQt5 before 5.5: the traceback is printed and the
\* event loop goes on; the rest of run_gemini has not run.
SlotReturns ==
    /\ pc = "raising"
    /\ pc' = "ready"
    /\ UNCHANGED << now, state, state_file, last, before, status, logged,
                    hist, exited, calls, ticks >>
    /\ UNCHANGED born
    /\ UNCHANGED otherVars

NextFault ==
    \/ Next
    \/ StoreDamaged
    \/ ConstructRaises
    \/ \E model \in RequestNames : LogRequestSaveFails(model)
    \/ SlotAborts
    \/ SlotReturns

SpecFault == Init /\ [][NextFault]_vars

----------------------------------------------------------------------------
(***************************************************************************)
(* Properties.  In a state whose last operation is a log_request or a      *)
(* get_limits, now is the time that call read and before is self.state as  *)
(* the call found it.                                                      *)
(***************************************************************************)

\* The last operation was log_request for a key of MODELS.
Recorded == last.op = "log_request" /\ last.model \in DOMAIN MODELS

\* The last operation was log_request for a name that is no key of MODELS.
TurnedAway == last.op = "log_request" /\ last.model \notin DOMAIN MODELS

\* C1: log_request is advisory only.  Whatever the name and whatever the
\* counters, also when minute_requests >= rpm or daily_requests >= daily,
\* the call returns True; for a key of MODELS whose caps are already
\* reached the counters are incremented all the same.
C1_AdvisoryOnly ==
    last.op = "log_request" =>
        /\ last.ret = "True"
        /\ last.model \in DOMAIN MODELS =>
             LET m   == last.model
                 old == before[m]
                 new == state[m]
             IN  /\ new.minute_requests \in { old.minute_requests + 1, 1 }
                 /\ new.daily_requests \in { old.daily_requests + 1, 1 }
                 /\ new.minute_requests >= 1
                 /\ new.daily_requests >= 1

\* C1 witness: a request recorded, and acknowledged, with both the
\* per-minute and the per-day cap already reached.
C1_Witness ==
    /\ Recorded
    /\ last.ret = "True"
    /\ now - before[last.model].minute_start < MINUTE
    /\ before[last.model].minute_requests >= MODELS[last.model].rpm
    /\ before[last.model].daily_requests >= MODELS[last.model].daily
    /\ state[last.model].daily_requests > MODELS[last.model].daily

\* C2: log_request for a name that is not a key of MODELS changes nothing:
\* self.state and the state file stay as they are, get_limits at the same
\* time returns the same mapping, and the call returns True.
C2_UnknownChangesNothing ==
    [][ (last'.op = "log_request" /\ last'.model \notin DOMAIN MODELS) =>
            /\ state' = state
            /\ state_file' = state_file
            /\ GetLimits(state', now') = GetLimits(state, now)
            /\ last'.ret = "True" ]_vars

\* C2 witness: an unknown name turned away by a tracker that has counted
\* requests.
C2_Witness ==
    /\ TurnedAway
    /\ state = before
    /\ \E m \in DOMAIN state : state[m].minute_requests > 0

\* C3: the counters are never negative, and a log_request for a key of
\* MODELS raises that model's two counters by exactly 1 from their values
\* after the rollover the call applies, and leaves every other model's
\* window state alone.
C3_CountsByOne ==
    /\ \A m \in DOMAIN state :
         state[m].minute_requests >= 0 /\ state[m].daily_requests >= 0
    /\ Recorded =>
         LET m   == last.model
             old == before[m]
             new == state[m]
         IN  /\ new.minute_requests =
                    IF now - old.minute_start >= MINUTE
                    THEN 1 ELSE old.minute_requests + 1
             /\ new.daily_requests =
                    IF now - old.day_start >= DAY
                    THEN 1 ELSE old.daily_requests + 1
             /\ DOMAIN state = DOMAIN before
             /\ \A other \in DOMAIN state \ {m} : state[other] = before[other]

\* C3 witness: a request counted on top of earlier ones while another model
\* holds counts of its own.
C3_Witness ==
    /\ Recorded
    /\ before[last.model].minute_requests > 0
    /\ state[last.model].minute_requests = before[last.model].minute_requests + 1
    /\ state[last.model].daily_requests = before[last.model].daily_requests + 1
    /\ \E other \in DOMAIN state \ {last.model} : state[other].daily_requests > 0


\* C4: minute-window rollover.  get_limits at a time 60 seconds or more
\* past minute_start reports the full rpm; a log_request at such a time
\* sets minute_start to that time and minute_requests to 1, exactly 60
\* seconds included; with less than 60 seconds elapsed it leaves
\* minute_start as it is.
C4_MinuteRollover ==
    /\ last.op = "get_limits" =>
         \A m \in DOMAIN state :
            now - state[m].minute_start >= 60 =>
                status[m].remaining_minute = MODELS[m].rpm
    /\ Recorded =>
         LET m   == last.model
             old == before[m]
             new == state[m]
         IN  /\ now - old.minute_start >= 60 =>
                    new.minute_start = now /\ new.minute_requests = 1
             /\ now - old.minute_start < 60 =>
                    new.minute_start = old.minute_start

\* C4 witness: a request recorded exactly 60 seconds after the start of a
\* minute window that had counted requests.
C4_Witness ==
    /\ Recorded
    /\ now - before[last.model].minute_start = 60
    /\ before[last.model].minute_requests > 0
    /\ state[last.model].minute_start = now
    /\ state[last.model].minute_requests = 1

\* C5: day-window rollover.  get_limits at a time 86400 seconds or more
\* past day_start reports the full daily cap; a log_request at such a time
\* sets day_start to that time and daily_requests to 1, else it leaves
\* day_start as it is; the decision depends on the day window alone,
\* whatever happens to the minute window in the same call.
C5_DayRollover ==
    /\ last.op = "get_limits" =>
         \A m \in DOMAIN state :
            now - state[m].day_start >= 86400 =>
                status[m].remaining_daily = MODELS[m].daily
    /\ Recorded =>
         LET m   == last.model
             old == before[m]
             new == state[m]
         IN  /\ now - old.day_start >= 86400 =>
                    new.day_start = now /\ new.daily_requests = 1
             /\ now - old.day_start < 86400 =>
                    /\ new.day_start = old.day_start
                    /\ new.daily_requests = old.daily_requests + 1

\* C5 witness: a request that rolls over the day window, exactly 86400
\* seconds after its start, and not the minute window.
C5_Witness ==
    /\ Recorded
    /\ now - before[last.model].day_start = 86400
    /\ before[last.model].daily_requests > 0
    /\ state[last.model].day_start = now
    /\ state[last.model].daily_requests = 1
    /\ state[last.model].minute_start = before[last.model].minute_start
    /\ state[last.model].minute_requests = before[last.model].minute_requests + 1

\* C6: get_limits is read-only.  It leaves self.state and the state file
\* as they are, also when a window has expired, and a second get_limits at
\* the same time returns the same mapping as the first.
C6_GetLimitsReadOnly ==
    [][ last'.op = "get_limits" =>
            /\ state' = state
            /\ state_file' = state_file
            /\ last.op = "get_limits" => status' = status ]_vars

\* C6 witness: get_limits has returned at a time at which a minute window
\* holding requests has expired, and self.state is as it was.
C6_Witness ==
    /\ last.op = "get_limits"
    /\ state = before
    /\ \E m \in DOMAIN state :
         /\ now - state[m].minute_start >= MINUTE
         /\ state[m].minute_requests > 0
         /\ status[m].remaining_minute = MODELS[m].rpm

\* C7: the rollover of get_limits and the rollover of log_request agree.
\* At every time, what get_limits reports for a model is the cap minus the
\* counter log_request would see after its rollover steps at that time;
\* get_limits right after a log_request reports each value exactly 1 lower
\* than get_limits at the same time before it.
C7_RolloversAgree ==
    /\ \A m \in DOMAIN state :
         LET rolled == RolledOver(state[m], now)
             limits == ModelLimits(state[m], MODELS[m], now)
         IN  /\ limits.remaining_minute = MODELS[m].rpm - rolled.minute_requests
             /\ limits.remaining_daily = MODELS[m].daily - rolled.daily_requests
    /\ last.op = "get_limits" =>
         \A m \in DOMAIN state :
            /\ status[m].remaining_minute =
                   MODELS[m].rpm - RolledOver(state[m], now).minute_requests
            /\ status[m].remaining_daily =
                   MODELS[m].daily - RolledOver(state[m], now).daily_requests
    /\ Recorded =>
         LET m == last.model
             pre == ModelLimits(before[m], MODELS[m], now)
             post == ModelLimits(state[m], MODELS[m], now)
         IN  /\ post.remaining_minute = pre.remaining_minute - 1
             /\ post.remaining_daily = pre.remaining_daily - 1

\* C7 witness: a request recorded at the very second both of its windows
\* expire, where get_limits reported the full caps before it and one less
\* after it.
C7_Witness ==
    /\ Recorded
    /\ now - before[last.model].day_start = DAY
    /\ now - before[last.model].minute_start >= MINUTE
    /\ before[last.model].daily_requests > 0
    /\ GetLimits(before, now)[last.model].remaining_daily = MODELS[last.model].daily
    /\ GetLimits(state, now)[last.model].remaining_daily = MODELS[last.model].daily - 1
    /\ GetLimits(state, now)[last.model].remaining_minute = MODELS[last.model].rpm - 1

\* The number of log_request calls for the model at or after the time t.
CallsSince(m, t) == Cardinality({ i \in 1..Len(hist[m]) : hist[m][i] >= t })

\* C8: within one minute window minute_requests is the number k of
\* requests recorded in it, and get_limits reports rpm - k, also when that
\* is negative; the same for daily_requests and the day window.
C8_CountsWithinWindow ==
    \A m \in DOMAIN state :
        LET k == CallsSince(m, state[m].minute_start)
            d == CallsSince(m, state[m].day_start)
            limits == ModelLimits(state[m], MODELS[m], now)
        IN  /\ state[m].minute_requests = k
            /\ state[m].daily_requests = d
            /\ now - state[m].minute_start < MINUTE =>
                   limits.remaining_minute = MODELS[m].rpm - k
            /\ now - state[m].day_start < DAY =>
                   limits.remaining_daily = MODELS[m].daily - d
            /\ last.op = "get_limits" => status[m] = limits

\* C8 witness: get_limits after the third request in one minute window of
\* the model with rpm = 2 reports -1.
C8_Witness ==
    /\ last.op = "get_limits"
    /\ hist["gemini-1.5-pro"] = << now, now, now >>
    /\ state["gemini-1.5-pro"].minute_requests = 3
    /\ status["gemini-1.5-pro"].remaining_minute = -1

\* C9: write-through persistence.  Whenever a tracker exists, the state
\* file exists and holds exactly self.state, so that a tracker constructed
\* from it has the same state.
C9_WriteThrough ==
    pc = "ready" =>
        /\ state_file.exists
        /\ state_file.text = JsonDump(state)
        /\ LoadState(state_file, now) = state

\* C9 witness: a recorded request that rolled over a minute window, with
\* the file holding the new window start and the new count.
C9_Witness ==
    /\ Recorded
    /\ now - before[last.model].minute_start >= MINUTE
    /\ before[last.model].minute_requests > 0
    /\ JsonLoad(state_file.text)[last.model].minute_start = now
    /\ JsonLoad(state_file.text)[last.model].minute_requests = 1

\* C10: persistence round trip.  Saving self.state and loading it into a
\* fresh tracker gives the same four fields per model, and get_limits of
\* the fresh tracker, with no time elapsed, returns what get_limits of the
\* original returned.
C10_RoundTrip ==
    /\ pc = "ready" =>
         LET loaded == LoadState(SavedFile(state), now)
         IN  /\ loaded = state
             /\ GetLimits(loaded, now) = GetLimits(state, now)
    /\ (last.op = "construct" /\ exited.known) =>
         /\ state = exited.state
         /\ now = exited.at => GetLimits(state, now) = exited.limits

\* C10 witness: a tracker constructed from the file of a process that
\* exited at this very time with windows that had started at different
\* times.
C10_Witness ==
    /\ last.op = "construct"
    /\ exited.known
    /\ now = exited.at
    /\ state = exited.state
    /\ \E m \in DOMAIN state :
         /\ state[m].minute_start # state[m].day_start
         /\ state[m].daily_requests > 1


\* C11: constructing the tracker never raises because of the state file:
\* with the file missing or not a JSON document, construction completes
\* with every model's counters at 0 and both window starts at the
\* construction time.
C11_ConstructionNeverRaises ==
    [][ ( /\ pc = "down"
          /\ last'.op = "construct"
          /\ ~state_file.exists \/ ~state_file.well_formed ) =>
            /\ last'.ret # "raised"
            /\ pc' = "ready"
            /\ state' = InitializeState(now) ]_vars

\* C12: in every state of a constructed tracker, freshly initialised or
\* loaded from a file an earlier save_state wrote, the keys of the state are
\* exactly the keys of MODELS: get_limits answers for every model of MODELS
\* and for no other name, and log_request for a model of MODELS finds its
\* window state with its four fields.
C12_KeysAreModels ==
    pc = "ready" =>
        /\ DOMAIN state = DOMAIN MODELS
        /\ DOMAIN GetLimits(state, now) = DOMAIN MODELS
        /\ last.op = "get_limits" => DOMAIN status = DOMAIN MODELS
        /\ \A model \in DOMAIN MODELS :
               DOMAIN state[model] = { FieldOrder[j] : j \in 1..Len(FieldOrder) }

\* A tracker loaded from a file that holds requests of an earlier process.
C12_Witness ==
    /\ pc = "ready"
    /\ last.op = "construct"
    /\ \E model \in DOMAIN MODELS : state[model].daily_requests > 0
    /\ DOMAIN state = DOMAIN MODELS

\* The last operation was a log_request for a model of MODELS whose
\* save_state did not write the state.
SaveFailed ==
    /\ last.op = "log_request"
    /\ last.model \in DOMAIN MODELS
    /\ state_file # SavedFile(LogRequestState(before, last.model, now))

\* C13: when the state file cannot be written at the end of log_request
\* for a model of MODELS, the caller gets a distinct error result, the
\* process goes on running, and the counters in memory keep the rollover
\* and the increment.
C13_WriteFailureIsAResult ==
    SaveFailed =>
        /\ last.ret = "error"
        /\ pc = "ready"
        /\ state[last.model] =
               Increment(RolledOver(before[last.model], now))

\* What get_limits reports now for gemini-1.5-pro (rpm 2, daily 50).
ProRemaining ==
    ModelLimits(state["gemini-1.5-pro"], MODELS["gemini-1.5-pro"], now)

\* All the log_request calls ever made for gemini-1.5-pro.
ProCalls == hist["gemini-1.5-pro"]

Remaining(perMinute, perDay) ==
    [ remaining_minute |-> perMinute, remaining_daily |-> perDay ]

\* The three observations of the scenario: after the first request at T0,
\* after the second at T0 + 30, and at T0 + 65 with no further request.
ScenarioHolds ==
    /\ (Len(ProCalls) = 1 /\ now = ProCalls[1]) =>
            ProRemaining = Remaining(1, 49)
    /\ (Len(ProCalls) = 2 /\ ProCalls[2] = ProCalls[1] + 30) =>
            /\ now = ProCalls[2] => ProRemaining = Remaining(0, 48)
            /\ now = ProCalls[1] + 65 => ProRemaining = Remaining(2, 48)

\* C14 as stated: on a freshly initialised tracker (counts zero, window
\* starts at construction time) whose first request for gemini-1.5-pro is
\* at T0, get_limits right after reports (1, 49); after a second request at
\* T0 + 30 it reports (0, 48); at T0 + 65 with no further request it
\* reports (2, 48).
C14_Scenario ==
    (pc = "ready" /\ born >= 0) => ScenarioHolds

\* C14 amended: the same three observations on a tracker that was freshly
\* initialised less than 30 seconds before T0, so that the minute window
\* that starts at construction holds both T0 and T0 + 30.
C14_ScenarioFromConstruction ==
    (pc = "ready" /\ born >= 0 /\ Len(ProCalls) > 0 /\ ProCalls[1] - born < 30)
        => ScenarioHolds

\* The third observation, made by get_limits on a tracker constructed at T0.
C14_Witness ==
    /\ pc = "ready"
    /\ Len(ProCalls) = 2
    /\ born = ProCalls[1]
    /\ ProCalls[2] = ProCalls[1] + 30
    /\ now = ProCalls[1] + 65
    /\ last.op = "get_limits"
    /\ status["gemini-1.5-pro"] = Remaining(2, 48)

\* No thread is inside log_request.
AllIdle == \A t \in Threads : threads[t].pc = "idle"

\* The counters of RaceModel are those at the first call raised by n.
RaisedBy(n) ==
    Counters(state[RaceModel]) =
        [minute_requests |-> race.base.minute_requests + n,
         daily_requests  |-> race.base.daily_requests + n]

\* C15: log_request is right as one atomic section.  As long as no
\* execution has begun while another was inside log_request, an execution
\* that reaches save_state has made of the state what the atomic
\* log_request makes of the state it began with, and n completed calls
\* without rollover have raised both counters by exactly n.  (That
\* interleaved executions lose an update is C15_Witness.)
C15_AtomicCountsExactly ==
    (pc = "ready" /\ ~race.overlapped) =>
        /\ \A t \in Threads :
              threads[t].pc = "108" =>
                state = LogRequestState(before, RaceModel,
                                        threads[t].current_time)
        /\ (race.started > 0 /\ AllIdle /\ ~race.rolled) =>
              RaisedBy(race.completed)

\* A lost update: two executions interleaved, no window rolled over, both
\* completed, and a counter is raised by one only.
C15_Witness ==
    /\ pc = "ready"
    /\ race.overlapped
    /\ ~race.rolled
    /\ AllIdle
    /\ race.completed = 2
    /\ \/ state[RaceModel].minute_requests = race.base.minute_requests + 1
       \/ state[RaceModel].daily_requests = race.base.daily_requests + 1
    /\ state_file = SavedFile(state)

\* The log_request just made emitted the advisory warning.
Warned == \E i \in 1..Len(logged) : logged[i].level = "warning"

\* C17: in log_request for a model of MODELS the warning is emitted exactly
\* when, after the rollover and before the increment, rpm - minute_requests
\* <= 0 or daily - daily_requests <= 0; warned or not, both counters are
\* incremented, the info record carries the remaining values after the
\* increment, and the state is saved.
C17_WarningExactlyAtCap ==
    (Recorded /\ pc = "ready") =>
        LET limits == MODELS[last.model]
            rolled == RolledOver(before[last.model], now)
            after  == state[last.model]
        IN  /\ Warned <=> \/ limits.rpm - rolled.minute_requests <= 0
                          \/ limits.daily - rolled.daily_requests <= 0
            /\ after.minute_requests = rolled.minute_requests + 1
            /\ after.daily_requests = rolled.daily_requests + 1
            /\ logged[Len(logged)] =
                  [level |-> "info", model |-> last.model,
                   minute |-> limits.rpm - after.minute_requests,
                   daily  |-> limits.daily - after.daily_requests]
            /\ state_file = SavedFile(state)

\* A request made with the minute cap just reached, not exceeded: warned,
\* counted, reported with a negative remaining value, and saved.
C17_Witness ==
    /\ Recorded
    /\ pc = "ready"
    /\ Warned
    /\ before[last.model].minute_requests = MODELS[last.model].rpm
    /\ now - before[last.model].minute_start < MINUTE
    /\ state[last.model].minute_requests = MODELS[last.model].rpm + 1
    /\ logged[Len(logged)].minute = -1
    /\ state_file = SavedFile(state)

\* A worker's run() comes to its end in this step.
WorkerStep ==
    \E i \in DOMAIN workers :
        /\ workers[i].pc = "running"
        /\ i \in DOMAIN workers'
        /\ workers'[i].pc = "returned"

\* C16: every run_gemini invocation that passes the two checks calls
\* log_request exactly once, for the selected model, then starts exactly
\* one worker; an invocation that fails a check calls log_request zero
\* times and starts no worker; and the worker thread never calls
\* log_request nor touches the tracker's state.
C16_OneLogRequestThenOneWorker ==
    [][ /\ invocation'.valid =>
              invocation'.events =
                  << [op |-> "log_request", model |-> invocation'.model],
                     [op |-> "start", model |-> invocation'.model] >>
        /\ ~invocation'.valid => invocation'.events = << >>
        /\ WorkerStep => UNCHANGED << state, state_file, hist, calls >> ]_vars

\* The workers whose finished signal display_response has not handled.
InFlight == { i \in DOMAIN workers : ~workers[i].handled }

\* C18: at most one worker is in flight: the run button is disabled from
\* the start of a validated run until display_response has handled the
\* worker's finished signal; every run() emits finished exactly once; and
\* so after every started run the run and save buttons are enabled again
\* (unless the window has been closed meanwhile).
C18_OneWorkerInFlight ==
    /\ [](pc = "ready" =>
            /\ Cardinality(InFlight) <= 1
            /\ InFlight # { } => ~gui.run_btn /\ ~gui.save_btn
            /\ \A i \in DOMAIN workers :
                  /\ workers[i].emitted <= 1
                  /\ workers[i].pc = "returned" => workers[i].emitted = 1
                  /\ workers[i].handled => workers[i].pc = "returned")
    /\ \A i \in 1..MaxRuns :
          (pc = "ready" /\ i \in InFlight) ~>
              \/ pc = "ready" /\ i \notin InFlight
                    /\ gui.run_btn /\ gui.save_btn
              \/ pc = "down"

\* An error run handled: the worker raised, emitted finished once, and
\* display_response showed the error text and enabled both buttons.
C18_Witness ==
    /\ pc = "ready"
    /\ workers # << >>
    /\ InFlight = { }
    /\ workers[Len(workers)].emitted = 1
    /\ gui.output = "Error: ..."
    /\ gui.run_btn
    /\ gui.save_btn

\* C19: the save-path handshake of the PDF tool is sound for any sequence
\* of PDF selections, also one made while an earlier run is in progress:
\* a busy wait of a run ends only once the dialog that run asked for has
\* returned; the run writes and reads back its CSV at the path its own CSV
\* dialog returned; and a run whose CSV dialog was cancelled writes no
\* file and asks for no JSONL and no text dialog.
C19_HandshakeSound ==
    \A r \in PdfRuns :
        /\ ~pdf[r].early
        /\ pdf[r].wrote_csv # "None" => pdf[r].wrote_csv = pdf[r].own_csv
        /\ pdf[r].read_csv # "None" => pdf[r].read_csv = pdf[r].own_csv
        /\ pdf[r].own_csv = "" =>
              /\ pdf[r].wrote = { }
              /\ pdf[r].asked = { "csv" }

====
